---- MODULE Spec2Model ----
(***************************************************************************)
(* CodeExplorer chatbot: the LangGraph workflow of src/chatbot/agent.py     *)
(* (preprocessor, start_kb_exploration, agent, tools, generate_kb,          *)
(* summarizer and their routers), driven turn by turn by src/app.py on the  *)
(* single thread id "1", with the ChatState reducers of                     *)
(* src/chatbot/models.py.                                                   *)
(*                                                                          *)
(* One action per graph node; an action runs the node, merges its return    *)
(* value through the reducers and evaluates the conditional edge that       *)
(* follows it, as one LangGraph superstep does.                             *)
(***************************************************************************)
EXTENDS Integers, Sequences, FiniteSets, TLC

\* ---------------------------------------------------------------- bounds
\* User turns submitted to the thread.
MaxTurns == 2
\* Node executions of one turn before the turn is cut off (the loops
\* agent -> tools -> agent and agent -> agent have no bound in the source).
MaxSteps == 25
\* Tool calls of one batch when the tools node is exercised on its own.
MaxBatch == 2

\* ------------------------------------------------------ program constants
\* _route_after_tools: kb_exploration_rounds > 8
RoundBudget == 8
\* _route_tools_node: len(state["messages"]) > 15
SummaryThreshold == 15
\* _summarize_conversation: keep_messages = 1
KeepMessages == 1
\* open_files: filesystem.read_files(file_paths, max_chars=30000)
MaxChars == 30000

\* ------------------------------------------------------------------ texts
Str(s) == [list |-> FALSE, text |-> s, chunks |-> <<>>]
Chunks(cs) == [list |-> TRUE, text |-> "", chunks |-> cs]

InitialPrompt == "initial_prompt"
KbInstruction == "Let's start build a comprehensive understanding of the codebase"
ContinueText == "Continue to self explore in order to generate the comprehensive knowledge base."
Placeholder == "..."
Reminder == "Remind: [Create an immediate comprehensive summary for these files first, then continue the exploration or anwser directly if you are confident.]"
NoValidContents == "No valid file contents retrieved."

\* What the user may type (app.py chat_input).
UserInputs == {"What does module X do?", " Please Generate Knowledge Base "}

\* str.lower().strip() on the inputs above; any other text is already normal.
Normalize(s) ==
    CASE s = "What does module X do?" -> "what does module x do?"
      [] s = " Please Generate Knowledge Base " -> "please generate knowledge base"
      [] OTHER -> s

\* The command phrases a normalized text contains ("x in content").
PhrasesIn(s) ==
    CASE s = "please generate knowledge base" -> {"generate knowledge base"}
      [] s = "generate knowledge base" -> {"generate knowledge base"}
      [] s = "generate kb" -> {"generate kb"}
      [] OTHER -> {}

\* --------------------------------------------------------------- messages
NoCalls == <<>>

Msg(type, content) ==
    [id |-> 0, type |-> type, content |-> content, tool_calls |-> NoCalls,
     tool_call_id |-> 0, tool_name |-> ""]

SystemMessage(s) == Msg("system", Str(s))
HumanMessage(s) == Msg("human", Str(s))
AIMessage(content, calls) == [Msg("ai", content) EXCEPT !.tool_calls = calls]
ToolMessage(s, call_id, name) ==
    [Msg("tool", Str(s)) EXCEPT !.tool_call_id = call_id, !.tool_name = name]
RemoveMessage(id) == [Msg("remove", Str("")) EXCEPT !.id = id]

Last(seq) == seq[Len(seq)]

ReplaceById(left, m) ==
    [i \in 1..Len(left) |-> IF left[i].id = m.id THEN m ELSE left[i]]

\* langgraph add_messages: messages without an id get a fresh one; a message
\* whose id is already in the history replaces it in place; a RemoveMessage
\* deletes the message with its id; anything else is appended.
RECURSIVE AddMessages(_, _, _)
AddMessages(left, right, nid) ==
    IF right = <<>> THEN left
    ELSE LET m == Head(right) IN
         IF m.type = "remove"
         THEN AddMessages(SelectSeq(left, LAMBDA x : x.id # m.id), Tail(right), nid)
         ELSE IF m.id = 0
         THEN AddMessages(Append(left, [m EXCEPT !.id = nid]), Tail(right), nid + 1)
         ELSE IF \E i \in 1..Len(left) : left[i].id = m.id
         THEN AddMessages(ReplaceById(left, m), Tail(right), nid)
         ELSE AddMessages(Append(left, m), Tail(right), nid)

\* Fresh ids handed out when `right` is merged.
NewIds(right) == Len(SelectSeq(right, LAMBDA m : m.type # "remove" /\ m.id = 0))

\* ------------------------------------------------------------- model call
\* The kinds of answer the language model gives (llm_with_tools.ainvoke):
\* plain text, a batch of two open_files calls (a repeated path among them),
\* or a batch without open_files (get_file_structure and a tool that does
\* not exist).
Kinds == {"text", "open", "list"}
\* The synthesis answer: plain, or carrying tool calls.
SynthesisKinds == {"text", "open"}
\* The kinds the answers of a turn settle on after the first.
SettledKinds == {"text", "open"}

\* An element of a file_paths list: a string, or a value that is not one.
S(s) == [isstr |-> TRUE, val |-> s]
NotStr(s) == [isstr |-> FALSE, val |-> s]

\* The file_paths argument of a tool call as the model sent it: a list, a
\* plain string, null, or no argument at all.
ListArg(items) == [shape |-> "list", items |-> items, text |-> ""]
StrArg(s) == [shape |-> "str", items |-> <<>>, text |-> s]
NullArg == [shape |-> "null", items |-> <<>>, text |-> ""]
MissingArg == [shape |-> "missing", items |-> <<>>, text |-> ""]

ToolCall(name, id, paths) == [name |-> name, id |-> id, file_paths |-> paths]

Batch(kind, n) ==
    CASE kind = "open" ->
             << ToolCall("open_files", 10 * n + 1, ListArg(<<S("b.py"), S("a.py")>>)),
                ToolCall("open_files", 10 * n + 2, ListArg(<<S("a.py")>>)) >>
      [] kind = "list" -> << ToolCall("get_file_structure", 10 * n + 1, MissingArg),
                             ToolCall("search_code", 10 * n + 2, MissingArg) >>
      [] OTHER -> NoCalls

\* The answer of kind `kind` with text `text`; a tool-calling answer comes as
\* a list of chunks (text and tool_use), a plain one as a string.
ModelResponse(kind, n, text) ==
    IF kind = "text" THEN AIMessage(Str(text), NoCalls)
    ELSE AIMessage(Chunks(<< [type |-> "text", text |-> text],
                             [type |-> "tool_use", text |-> ""] >>),
                   Batch(kind, n))

\* ------------------------------------------------------------- file system
\* The codebase: small files, a file with a digit in its name, a hidden file,
\* a file of exactly MaxChars characters, one of MaxChars + 1, a file that is
\* not valid UTF-8, and a directory.
ExistingFiles == {"a.py", "b.py", "v2.py", ".env.py", "edge.py", "big.py", "bin.py"}
Directories == {"pkg"}
Undecodable == {"bin.py"}

\* n copies of the character c.
RECURSIVE Rep(_, _)
Rep(c, n) ==
    IF n = 0 THEN ""
    ELSE LET h == Rep(c, n \div 2)
         IN  IF n % 2 = 0 THEN h \o h ELSE h \o h \o c

FileContent(p) ==
    CASE p = "edge.py" -> Rep("e", MaxChars)
      [] p = "big.py" -> Rep("g", MaxChars + 1)
      [] OTHER -> "content of " \o p

\* ---- str methods used by read_files
Whitespace == {" ", "\n", "\t"}
Digits == {"0", "1", "2", "3", "4", "5", "6", "7", "8", "9"}

CharAt(s, i) == SubSeq(s, i, i)

RECURSIVE LStrip(_, _)
LStrip(s, cs) ==
    IF Len(s) = 0 THEN s
    ELSE IF CharAt(s, 1) \in cs THEN LStrip(SubSeq(s, 2, Len(s)), cs)
    ELSE s

RECURSIVE RStrip(_, _)
RStrip(s, cs) ==
    IF Len(s) = 0 THEN s
    ELSE IF CharAt(s, Len(s)) \in cs THEN RStrip(SubSeq(s, 1, Len(s) - 1), cs)
    ELSE s

Strip(s, cs) == RStrip(LStrip(s, cs), cs)

\* ''.join(c for c in s if c not in cs)
RECURSIVE Without(_, _)
Without(s, cs) ==
    IF Len(s) = 0 THEN s
    ELSE (IF CharAt(s, 1) \in cs THEN "" ELSE CharAt(s, 1))
         \o Without(SubSeq(s, 2, Len(s)), cs)

\* fp_clean of read_files (lines 66-67)
CleanPath(fp) ==
    LET unquoted == Strip(Strip(Strip(fp, Whitespace), {"'", "\"", "[", "]"}), Whitespace)
        undigited == Strip(Without(unquoted, Digits), Whitespace)
    IN  Strip(LStrip(undigited, {".", " "}), Whitespace)

\* ast.literal_eval on the stringified lists the model sends.
LiteralEval(s) ==
    CASE s = "['a.py', 'b.py']" -> [ok |-> TRUE, value |-> <<S("a.py"), S("b.py")>>]
      [] s = "[1, 2]" -> [ok |-> TRUE, value |-> <<NotStr("1"), NotStr("2")>>]
      [] OTHER -> [ok |-> FALSE, value |-> <<>>]

\* cleaned_paths of read_files (lines 50-63); failed: literal_eval raised
\* ValueError or SyntaxError and the sentinel is returned at once.
CleanedPaths(file_paths) ==
    IF file_paths.shape = "str"
    THEN LET fp_cleaned == Strip(Without(file_paths.text, {"\n"}), Whitespace) IN
         IF Len(fp_cleaned) > 0 /\ CharAt(fp_cleaned, 1) = "["
            /\ CharAt(fp_cleaned, Len(fp_cleaned)) = "]"
         THEN LET parsed == LiteralEval(fp_cleaned)
              IN  [failed |-> ~parsed.ok, paths |-> parsed.value]
         ELSE [failed |-> FALSE, paths |-> <<S(fp_cleaned)>>]
    ELSE IF file_paths.shape = "list"
    THEN [failed |-> FALSE, paths |-> file_paths.items]
    ELSE [failed |-> FALSE, paths |-> <<>>]

RECURSIVE Dedup(_)
Dedup(paths) ==
    IF paths = <<>> THEN <<>>
    ELSE LET rest == Dedup(SelectSeq(Tail(paths), LAMBDA p : p # Head(paths)))
         IN  <<Head(paths)>> \o rest

Truncated_MarkAtLimit(content, max_chars) ==
    (IF Len(content) > max_chars THEN SubSeq(content, 1, max_chars) ELSE content)
    \o (IF Len(content) >= max_chars THEN "..." ELSE "")

\* content[:max_chars] + ("..." if len(content) > max_chars else "")
Truncated(content, max_chars) ==
    (IF Len(content) > max_chars THEN SubSeq(content, 1, max_chars) ELSE content)
    \o (IF Len(content) > max_chars THEN "..." ELSE "")

Block(fp, max_chars) == fp \o ":\n" \o Truncated(FileContent(fp), max_chars)

RECURSIVE JoinBlocks(_, _)
JoinBlocks(paths, max_chars) ==
    IF paths = <<>> THEN ""
    ELSE IF Len(paths) = 1 THEN Block(Head(paths), max_chars)
    ELSE Block(Head(paths), max_chars) \o "\n\n" \o JoinBlocks(Tail(paths), max_chars)

\* The paths read_files looks up, in order: the cleaned paths that are
\* neither empty nor "/".
LookedUp(paths) ==
    SelectSeq([i \in 1..Len(paths) |-> CleanPath(paths[i].val)],
              LAMBDA p : p # "" /\ p # "/")

\* FileSystem.read_files. raised: an element of the list is not a string
\* (fp.strip() raises AttributeError, which nothing catches). Otherwise one
\* block per looked-up path that is a readable file (the contents dict keeps
\* one entry per path, at its first position), or the sentinel.
ReadFiles(file_paths, max_chars) ==
    LET cleaned == CleanedPaths(file_paths) IN
    IF cleaned.failed THEN [raised |-> FALSE, result |-> NoValidContents]
    ELSE IF \E i \in 1..Len(cleaned.paths) : ~cleaned.paths[i].isstr
    THEN [raised |-> TRUE, result |-> ""]
    ELSE LET found == Dedup(SelectSeq(LookedUp(cleaned.paths),
                                      LAMBDA p : p \in ExistingFiles \ Undecodable))
         IN  [raised |-> FALSE,
              result |-> IF found = <<>> THEN NoValidContents
                         ELSE JoinBlocks(found, max_chars)]

\* tools.py open_files
OpenFiles(file_paths) == ReadFiles(file_paths, MaxChars)

GetFileStructure == "file_structure"

\* ------------------------------------------------------------------ nodes
\* A node sees the state as a record st and returns an update: a record with
\* the fields it sets.

IsOpenFilesResult(m) == m.type = "tool" /\ m.tool_name = "open_files"

PreprocessorNode_AnyHuman(st) ==
    IF st.messages = <<>> THEN st
    ELSE IF Last(st.messages).type = "human"
         THEN [st EXCEPT !.command = "generate_kb"]
         ELSE [st EXCEPT !.command = "none"]

\* _preprocessor_node: returns the whole state with command set.
PreprocessorNode(st) ==
    IF st.messages = <<>> THEN st
    ELSE LET last == Last(st.messages) IN
         IF last.type = "human" /\ ~last.content.list
            /\ PhrasesIn(Normalize(last.content.text)) # {}
         THEN [st EXCEPT !.command = "generate_kb"]
         ELSE [st EXCEPT !.command = "none"]

\* The inputs of the ainvoke calls of _agent_node, in order: the history with
\* the reminder when the last message is an open_files result, then the
\* history.
Inputs(history, reminded) ==
    IF reminded THEN <<history \o <<HumanMessage(Reminder)>>, history>>
    ELSE <<history>>

AgentNode_ContinueAlways(st, kind, fails, n) ==
    LET reminded == IsOpenFilesResult(Last(st.messages))
        response == ModelResponse(kind, n, "answer")
        collapsed == [st.messages EXCEPT ![Len(st.messages)].content = Str(Placeholder)]
        calls == IF reminded THEN 2 ELSE 1
        sent == Inputs(st.messages, reminded)
    IN  IF fails
        THEN [raised |-> TRUE, thread |-> st.messages, patched |-> <<>>,
              update |-> [messages |-> <<>>], calls |-> calls, sent |-> sent]
        ELSE IF response.tool_calls = NoCalls
        THEN [raised |-> FALSE, thread |-> st.messages, patched |-> <<>>,
              update |-> [messages |-> <<response, HumanMessage(ContinueText)>>],
              calls |-> calls, sent |-> sent]
        ELSE [raised |-> FALSE,
              thread |-> IF reminded THEN collapsed ELSE st.messages,
              patched |-> IF reminded THEN <<Last(collapsed)>> ELSE <<>>,
              update |-> [messages |-> <<response>>], calls |-> calls, sent |-> sent]

AgentNode_CollapseFirst(st, kind, fails, n) ==
    LET reminded == IsOpenFilesResult(Last(st.messages))
        response == ModelResponse(kind, n, "answer")
        collapsed == [st.messages EXCEPT ![Len(st.messages)].content = Str(Placeholder)]
        thread == IF reminded THEN collapsed ELSE st.messages
        patched == IF reminded THEN <<Last(collapsed)>> ELSE <<>>
        calls == IF reminded THEN 2 ELSE 1
        sent == Inputs(st.messages, reminded)
    IN  IF fails
        THEN [raised |-> TRUE, thread |-> thread, patched |-> patched,
              update |-> [messages |-> <<>>], calls |-> calls, sent |-> sent]
        ELSE IF response.tool_calls = NoCalls /\ st.generating_kb
        THEN [raised |-> FALSE, thread |-> thread, patched |-> patched,
              update |-> [messages |-> <<response, HumanMessage(ContinueText)>>],
              calls |-> calls, sent |-> sent]
        ELSE [raised |-> FALSE, thread |-> thread, patched |-> patched,
              update |-> [messages |-> <<response>>], calls |-> calls, sent |-> sent]

AgentNode_CollapseBeforeCall(st, kind, fails, n) ==
    LET last == Last(st.messages)
        reminded == IsOpenFilesResult(last)
        response == ModelResponse(kind, n, "answer")
        collapsed == [st.messages EXCEPT ![Len(st.messages)].content = Str(Placeholder)]
        calls == IF reminded THEN 2 ELSE 1
        sent == Inputs(IF reminded THEN collapsed ELSE st.messages, reminded)
    IN  IF fails
        THEN [raised |-> TRUE, thread |-> st.messages, patched |-> <<>>,
              update |-> [messages |-> <<>>], calls |-> calls, sent |-> sent]
        ELSE IF response.tool_calls = NoCalls /\ st.generating_kb
        THEN [raised |-> FALSE, thread |-> st.messages, patched |-> <<>>,
              update |-> [messages |-> <<response, HumanMessage(ContinueText)>>],
              calls |-> calls, sent |-> sent]
        ELSE [raised |-> FALSE,
              thread |-> IF reminded THEN collapsed ELSE st.messages,
              patched |-> IF reminded THEN <<Last(collapsed)>> ELSE <<>>,
              update |-> [messages |-> <<response>>],
              calls |-> calls, sent |-> sent]

\* _agent_node. fails: an ainvoke of the node raises. The result holds the
\* history as the node leaves it for the running thread (thread: the last
\* message is changed in place), the messages it handed to update_state for
\* thread "1" (patched), the returned update, the number of ainvoke calls of
\* the node and the input of each (sent).
AgentNode(st, kind, fails, n) ==
    LET last == Last(st.messages)
        reminded == IsOpenFilesResult(last)
        response == ModelResponse(kind, n, "answer")
        collapsed == [st.messages EXCEPT ![Len(st.messages)].content = Str(Placeholder)]
        calls == IF reminded THEN 2 ELSE 1
        sent == Inputs(st.messages, reminded)
    IN  IF fails
        THEN [raised |-> TRUE, thread |-> st.messages, patched |-> <<>>,
              update |-> [messages |-> <<>>], calls |-> calls, sent |-> sent]
        ELSE IF response.tool_calls = NoCalls /\ st.generating_kb
        THEN [raised |-> FALSE, thread |-> st.messages, patched |-> <<>>,
              update |-> [messages |-> <<response, HumanMessage(ContinueText)>>],
              calls |-> calls, sent |-> sent]
        ELSE [raised |-> FALSE,
              thread |-> IF reminded THEN collapsed ELSE st.messages,
              patched |-> IF reminded THEN <<Last(collapsed)>> ELSE <<>>,
              update |-> [messages |-> <<response>>],
              calls |-> calls, sent |-> sent]

\* tool_call["args"].get("file_paths", [])
FilePathsOf(call) ==
    IF call.file_paths.shape = "missing" THEN ListArg(<<>>) ELSE call.file_paths

\* all_files_opened.extend(file_paths): the elements of a list, the
\* characters of a string; null raises TypeError.
Extended(file_paths) ==
    CASE file_paths.shape = "list" -> file_paths.items
      [] file_paths.shape = "str" ->
             [i \in 1..Len(file_paths.text) |-> S(CharAt(file_paths.text, i))]
      [] OTHER -> <<>>

\* The dispatch of the call raises out of _execute_tools_node.
CallRaises(call) ==
    /\ call.name = "open_files"
    /\ \/ OpenFiles(FilePathsOf(call)).raised
       \/ FilePathsOf(call).shape = "null"

ToolResult(call) ==
    CASE call.name = "open_files" -> OpenFiles(FilePathsOf(call)).result
      [] call.name = "get_file_structure" -> GetFileStructure
      [] OTHER -> "Unknown tool: " \o call.name

RECURSIVE OpenedPaths(_)
OpenedPaths(calls) ==
    IF calls = <<>> THEN <<>>
    ELSE (IF Head(calls).name = "open_files"
          THEN Extended(FilePathsOf(Head(calls))) ELSE <<>>)
         \o OpenedPaths(Tail(calls))

UsedOpenFiles(calls) == \E i \in 1..Len(calls) : calls[i].name = "open_files"

RoundsAfter_PerCall(rounds, generating, calls) ==
    IF generating
    THEN rounds + Len(SelectSeq(calls, LAMBDA c : c.name = "open_files"))
    ELSE rounds

\* The counter after a batch: one more when exploring and open_files was used.
RoundsAfter(rounds, generating, calls) ==
    IF generating /\ UsedOpenFiles(calls) THEN rounds + 1 ELSE rounds

\* _execute_tools_node. raised: the dispatch of a call of the batch raised,
\* and the node returns nothing.
ExecuteToolsNode(st) ==
    LET calls == Last(st.messages).tool_calls IN
    IF \E i \in 1..Len(calls) : CallRaises(calls[i])
    THEN [raised |-> TRUE, update |-> [messages |-> <<>>]]
    ELSE [raised |-> FALSE,
          update |->
            [messages |-> [i \in 1..Len(calls) |->
                             ToolMessage(ToolResult(calls[i]), calls[i].id, calls[i].name)],
             all_files_opened |-> OpenedPaths(calls),
             kb_exploration_rounds |->
                 RoundsAfter(st.kb_exploration_rounds, st.generating_kb, calls),
             generating_kb |-> st.generating_kb,
             command |-> "none"]]

StartKbExplorationNode_KeepsCommand(st) ==
    [messages |-> <<HumanMessage(KbInstruction)>>,
     generating_kb |-> TRUE,
     kb_exploration_rounds |-> 0,
     command |-> st.command]

\* _start_kb_exploration_node
StartKbExplorationNode(st) ==
    [messages |-> <<HumanMessage(KbInstruction)>>,
     generating_kb |-> TRUE,
     kb_exploration_rounds |-> 0,
     command |-> "none"]

RECURSIVE JoinText(_)
JoinText(chunks) ==
    IF chunks = <<>> THEN ""
    ELSE (IF Head(chunks).type = "text" THEN Head(chunks).text ELSE "")
         \o JoinText(Tail(chunks))

\* kb_content: the text chunks of a chunked answer, or str(content).
Flatten(content) == IF content.list THEN JoinText(content.chunks) ELSE content.text

KbPrompt(existing_kb) == "Knowledge Base Update Protocol; established: " \o existing_kb

GenerateKnowledgeBaseNode_DropsOnWriteFailure(st, kind, fails, writable, file, text, n) ==
    LET kb_prompt == HumanMessage(KbPrompt(st.knowledge_base))
        kb_response == ModelResponse(kind, n, text)
        kb_content == Flatten(kb_response.content)
    IN  IF fails
        THEN [raised |-> TRUE, file |-> file, written |-> "none",
              sent |-> <<st.messages \o <<kb_prompt>>>>,
              update |-> [messages |-> <<>>]]
        ELSE [raised |-> FALSE,
              file |-> IF writable THEN kb_content ELSE file,
              written |-> IF writable THEN "ok" ELSE "failed",
              sent |-> <<st.messages \o <<kb_prompt>>>>,
              update |-> [messages |-> <<kb_prompt, kb_response>>,
                          knowledge_base |-> IF writable THEN kb_content
                                             ELSE st.knowledge_base,
                          generating_kb |-> FALSE,
                          command |-> "none"]]

GenerateKnowledgeBaseNode_KeepsMode(st, kind, fails, writable, file, text, n) ==
    LET kb_prompt == HumanMessage(KbPrompt(st.knowledge_base))
        kb_response == ModelResponse(kind, n, text)
        kb_content == Flatten(kb_response.content)
    IN  IF fails
        THEN [raised |-> TRUE, file |-> file, written |-> "none",
              sent |-> <<st.messages \o <<kb_prompt>>>>,
              update |-> [messages |-> <<>>]]
        ELSE [raised |-> FALSE,
              file |-> IF writable THEN kb_content ELSE file,
              written |-> IF writable THEN "ok" ELSE "failed",
              sent |-> <<st.messages \o <<kb_prompt>>>>,
              update |-> [messages |-> <<kb_prompt, kb_response>>,
                          knowledge_base |-> kb_content,
                          command |-> "none"]]

\* _generate_knowledge_base_node. writable: open(kb_path, 'w') succeeds.
\* The result holds the knowledge-base file as the node leaves it.
GenerateKnowledgeBaseNode(st, kind, fails, writable, file, text, n) ==
    LET kb_prompt == HumanMessage(KbPrompt(st.knowledge_base))
        kb_response == ModelResponse(kind, n, text)
        kb_content == Flatten(kb_response.content)
    IN  IF fails
        THEN [raised |-> TRUE, file |-> file, written |-> "none",
              sent |-> <<st.messages \o <<kb_prompt>>>>,
              update |-> [messages |-> <<>>]]
        ELSE [raised |-> FALSE,
              file |-> IF writable THEN kb_content ELSE file,
              written |-> IF writable THEN "ok" ELSE "failed",
              sent |-> <<st.messages \o <<kb_prompt>>>>,
              update |-> [messages |-> <<kb_prompt, kb_response>>,
                          knowledge_base |-> kb_content,
                          generating_kb |-> FALSE,
                          command |-> "none"]]

MessagesToRemove_WithSystem(msgs) == SubSeq(msgs, 1, Len(msgs) - KeepMessages)

\* messages_to_remove of _summarize_conversation
MessagesToRemove(msgs) ==
    LET older == SubSeq(msgs, 1, Len(msgs) - KeepMessages)
    IN  IF older[1].type = "system" THEN Tail(older) ELSE older

\* The text a message shows when it is formatted into a prompt.
TextOf(m) == IF m.content.list THEN JoinText(m.content.chunks) ELSE m.content.text

\* f"{messages_to_remove}": the messages one after the other, each as its
\* class, content and id.
Repr(m) == m.type \o "(content=" \o TextOf(m) \o ", id=" \o ToString(m.id) \o ")"

RECURSIVE ReprList(_)
ReprList(msgs) ==
    IF msgs = <<>> THEN ""
    ELSE Repr(Head(msgs)) \o (IF Len(msgs) > 1 THEN ", " ELSE "") \o ReprList(Tail(msgs))

\* summary_prompt of _summarize_conversation
SummaryPrompt(summary, messages_to_remove) ==
    "Current conversation summary: " \o summary
    \o " Update this summary with key technical details from these new messages: ["
    \o ReprList(messages_to_remove) \o "] less than 500 words"

SummarizeConversation_RemovesOldest(st, fails, text) ==
    LET messages_to_remove == MessagesToRemove(st.messages)
        summary_prompt == SummaryPrompt(st.summary, messages_to_remove)
    IN  IF fails
        THEN [raised |-> TRUE, sent |-> <<<<HumanMessage(summary_prompt)>>>>,
              update |-> [messages |-> <<>>]]
        ELSE [raised |-> FALSE, sent |-> <<<<HumanMessage(summary_prompt)>>>>,
              update |-> [summary |-> text,
                          messages |-> <<RemoveMessage(messages_to_remove[1].id)>>]]

\* _summarize_conversation. sent: the input of its ainvoke call.
SummarizeConversation(st, fails, text) ==
    LET messages_to_remove == MessagesToRemove(st.messages)
        summary_prompt == SummaryPrompt(st.summary, messages_to_remove)
    IN  IF fails
        THEN [raised |-> TRUE, sent |-> <<<<HumanMessage(summary_prompt)>>>>,
              update |-> [messages |-> <<>>]]
        ELSE [raised |-> FALSE, sent |-> <<<<HumanMessage(summary_prompt)>>>>,
              update |-> [summary |-> text,
                          messages |-> [i \in 1..Len(messages_to_remove) |->
                                           RemoveMessage(messages_to_remove[i].id)]]]

\* ---------------------------------------------------------------- routers
RouteAfterPreprocessing(st) ==
    IF st.command = "generate_kb" THEN "start_kb_exploration" ELSE "agent"

RouteToolsNode_ModeFirst(st) ==
    IF st.messages = <<>> THEN "END"
    ELSE IF st.generating_kb THEN "agent"
    ELSE IF Last(st.messages).tool_calls # NoCalls THEN "tools"
    ELSE IF Len(st.messages) > SummaryThreshold THEN "summarizer"
    ELSE "END"

RouteToolsNode_NoSummarizer(st) ==
    IF st.messages = <<>> THEN "END"
    ELSE IF Last(st.messages).tool_calls # NoCalls THEN "tools"
    ELSE IF st.generating_kb THEN "agent"
    ELSE "END"

RouteToolsNode(st) ==
    IF st.messages = <<>> THEN "END"
    ELSE IF Last(st.messages).tool_calls # NoCalls THEN "tools"
    ELSE IF st.generating_kb THEN "agent"
    ELSE IF Len(st.messages) > SummaryThreshold THEN "summarizer"
    ELSE "END"

RouteAfterTools_AtBudget(st) ==
    IF st.generating_kb /\ st.kb_exploration_rounds >= RoundBudget
    THEN "generate_kb" ELSE "agent"

RouteAfterTools(st) ==
    IF st.generating_kb /\ st.kb_exploration_rounds > RoundBudget
    THEN "generate_kb" ELSE "agent"

\* ---------------------------------------------------------------- reducers
\* ChatState: messages merge through add_messages, all_files_opened through
\* operator.add, every other field keeps the last value written.
Has(upd, f) == f \in DOMAIN upd

Merge(st, upd, nid) ==
    [messages |-> IF Has(upd, "messages")
                  THEN AddMessages(st.messages, upd.messages, nid) ELSE st.messages,
     all_files_opened |-> IF Has(upd, "all_files_opened")
                          THEN st.all_files_opened \o upd.all_files_opened
                          ELSE st.all_files_opened,
     kb_exploration_rounds |-> IF Has(upd, "kb_exploration_rounds")
                               THEN upd.kb_exploration_rounds
                               ELSE st.kb_exploration_rounds,
     generating_kb |-> IF Has(upd, "generating_kb")
                       THEN upd.generating_kb ELSE st.generating_kb,
     knowledge_base |-> IF Has(upd, "knowledge_base")
                        THEN upd.knowledge_base ELSE st.knowledge_base,
     command |-> IF Has(upd, "command") THEN upd.command ELSE st.command,
     summary |-> IF Has(upd, "summary") THEN upd.summary ELSE st.summary]

\* ------------------------------------------------------------------ state
VARIABLES
    \* ChatState of thread "1" as the checkpointer holds it
    messages, all_files_opened, kb_exploration_rounds, generating_kb,
    knowledge_base, command, summary,
    \* knowledge_base.md under the codebase root ("" when absent)
    kb_file,
    \* the node the graph runs next ("idle": no turn is running), how the last
    \* turn ended ("end": the graph reached END, "error": a model call raised,
    \* "limit": the turn was cut off), and the node that ran last
    pc, outcome, last_stage,
    \* turns submitted so far, node executions of the running turn, the next
    \* fresh message id
    turns, steps, next_id,
    \* the model's answers to the Agent calls of a turn: "first" before the
    \* first call, which is answered with any kind; "second" before the second,
    \* which may fail or settles the kind every later answer of the turn has
    script,
    \* ainvoke calls issued by the node that ran last, and what they were
    \* given: the ids of the open_files results passed with their content
    \* (full), whether every input held the summary of the state (summary), and
    \* the text of the last message of the last input (prompt)
    model_calls, model_seen,
    \* bookkeeping of the running turn: its user input, the first message id
    \* handed out in it, generating_kb as the turn found it, the number of
    \* generate_kb executions, and the outcome of the last write of kb_file
    input, first_id, kb_at_start, kb_runs, last_write,
    \* every file_paths list handed to open_files so far, concatenated
    requested,
    \* the thread id of the session's config, and the message histories the
    \* checkpointer holds for the other thread ids
    thread_id, others

state_vars == <<messages, all_files_opened, kb_exploration_rounds, generating_kb,
                knowledge_base, command, summary>>
turn_vars == <<input, first_id, kb_at_start, kb_runs, last_write>>
vars == <<messages, all_files_opened, kb_exploration_rounds, generating_kb,
          knowledge_base, command, summary, kb_file, pc, outcome, last_stage,
          turns, steps, next_id, script, model_calls, model_seen, input,
          first_id, kb_at_start, kb_runs, last_write, requested, thread_id,
          others>>
store_vars == <<thread_id, others>>

\* The state a node is handed.
State ==
    [messages |-> messages, all_files_opened |-> all_files_opened,
     kb_exploration_rounds |-> kb_exploration_rounds,
     generating_kb |-> generating_kb, knowledge_base |-> knowledge_base,
     command |-> command, summary |-> summary]

\* The checkpoint after a superstep.
Commit(st) ==
    /\ messages' = st.messages
    /\ all_files_opened' = st.all_files_opened
    /\ kb_exploration_rounds' = st.kb_exploration_rounds
    /\ generating_kb' = st.generating_kb
    /\ knowledge_base' = st.knowledge_base
    /\ command' = st.command
    /\ summary' = st.summary

\* The conditional edge taken after a node.
Goto(route) ==
    IF route = "END" THEN pc' = "idle" /\ outcome' = "end"
    ELSE pc' = route /\ outcome' = "running"

\* A node raised: astream raises into stream_response, which shows the error.
Raise == pc' = "idle" /\ outcome' = "error"

\* part occurs in text.
Contains(text, part) ==
    \/ part = ""
    \/ \E i \in 1..(Len(text) - Len(part) + 1) :
          SubSeq(text, i, i + Len(part) - 1) = part

\* The open_files results a model input holds with their content.
FullIds(history) ==
    {history[i].id : i \in {j \in 1..Len(history) :
                               /\ IsOpenFilesResult(history[j])
                               /\ history[j].content # Str(Placeholder)}}

NoInput == [full |-> {}, summary |-> FALSE, prompt |-> ""]

\* What the model calls with the inputs sent were given.
Seen(sent) ==
    IF sent = <<>> THEN NoInput
    ELSE [full |-> UNION {FullIds(sent[i]) : i \in 1..Len(sent)},
          summary |-> /\ summary # ""
                      /\ \A i \in 1..Len(sent) : \E j \in 1..Len(sent[i]) :
                             Contains(TextOf(sent[i][j]), summary),
          prompt |-> TextOf(Last(Last(sent)))]

\* The node `stage` ran and issued one model call for each input of sent.
Ran(stage, sent) ==
    /\ last_stage' = stage
    /\ steps' = steps + 1
    /\ model_calls' = Len(sent)
    /\ model_seen' = Seen(sent)

\* The texts the model writes in turn t.
KbText(t) == "kb" \o ToString(t)
SummaryText(t) == "summary" \o ToString(t)

\* The thread ids of a checkpoint store; app.py uses "1".
ThreadIds == {"1", "2"}

\* A conversation held earlier under another thread id.
OtherHistory ==
    << [SystemMessage(InitialPrompt) EXCEPT !.id = 1001],
       [HumanMessage("What does module X do?") EXCEPT !.id = 1002],
       [AIMessage(Str("answer"), NoCalls) EXCEPT !.id = 1003] >>

\* A fresh session: an existing knowledge_base.md is loaded into the state
\* of the session's thread.
Fresh ==
    /\ kb_file \in {"", "kb0"}
    /\ knowledge_base = kb_file
    /\ messages = <<>>
    /\ all_files_opened = <<>>
    /\ kb_exploration_rounds = 0
    /\ generating_kb = FALSE
    /\ command = "none"
    /\ summary = ""
    /\ pc = "idle" /\ outcome = "none" /\ last_stage = "none"
    /\ turns = 0 /\ steps = 0 /\ next_id = 1
    /\ script = "first"
    /\ model_calls = 0 /\ model_seen = NoInput
    /\ input = "" /\ first_id = 1 /\ kb_at_start = FALSE /\ kb_runs = 0
    /\ last_write = "none"
    /\ requested = <<>>

\* app.py: the session's config names thread "1".
Init ==
    /\ Fresh
    /\ thread_id = "1"
    /\ others = [t \in ThreadIds \ {"1"} |-> <<>>]

\* app.py chat_input: the first input of a thread is preceded by the system
\* prompt; the input is merged into the checkpointed state and the graph
\* starts at its entry point.
InputState(msgs, text) ==
    IF Len(msgs) = 0 THEN <<SystemMessage(InitialPrompt), HumanMessage(text)>>
    ELSE <<HumanMessage(text)>>

StartTurn ==
    /\ pc = "idle"
    /\ turns < MaxTurns
    /\ \E text \in UserInputs :
          LET input_state == InputState(messages, text) IN
          /\ messages' = AddMessages(messages, input_state, next_id)
          /\ next_id' = next_id + NewIds(input_state)
          /\ input' = text
    /\ pc' = "preprocessor" /\ outcome' = "running" /\ last_stage' = "none"
    /\ turns' = turns + 1 /\ steps' = 0 /\ script' = "first"
    /\ model_calls' = 0 /\ model_seen' = NoInput
    /\ first_id' = next_id /\ kb_at_start' = generating_kb /\ kb_runs' = 0
    /\ last_write' = "none"
    /\ UNCHANGED <<all_files_opened, kb_exploration_rounds, generating_kb,
                   knowledge_base, command, summary, kb_file, requested>>
    /\ UNCHANGED store_vars

Preprocessor ==
    /\ pc = "preprocessor" /\ steps < MaxSteps
    /\ \E upd \in {PreprocessorNode(State)} :
       \E new \in {Merge(State, upd, next_id)} :
           /\ Commit(new)
           /\ next_id' = next_id + NewIds(upd.messages)
           /\ Goto(RouteAfterPreprocessing(new))
    /\ Ran("preprocessor", <<>>)
    /\ UNCHANGED <<kb_file, turns, script, requested>>
    /\ UNCHANGED turn_vars
    /\ UNCHANGED store_vars

StartKbExploration ==
    /\ pc = "start_kb_exploration" /\ steps < MaxSteps
    /\ \E upd \in {StartKbExplorationNode(State)} :
       \E new \in {Merge(State, upd, next_id)} :
           /\ Commit(new)
           /\ next_id' = next_id + NewIds(upd.messages)
           /\ Goto("agent")
    /\ Ran("start_kb_exploration", <<>>)
    /\ UNCHANGED <<kb_file, turns, script, requested>>
    /\ UNCHANGED turn_vars
    /\ UNCHANGED store_vars

\* The model answers the Agent call with an answer of kind `kind`.
Agent ==
    /\ pc = "agent" /\ steps < MaxSteps
    /\ \E kind \in Kinds :
          /\ \/ script = "first"
             \/ script = "second" /\ kind \in SettledKinds
             \/ script = kind
          /\ \E r \in {AgentNode(State, kind, FALSE, next_id)} :
             \E new \in {Merge([State EXCEPT !.messages = r.thread], r.update, next_id)} :
                 /\ Commit(new)
                 /\ next_id' = next_id + NewIds(r.update.messages)
                 /\ Goto(RouteToolsNode(new))
                 /\ Ran("agent", r.sent)
                 /\ others' = IF thread_id = "1" THEN others
                              ELSE [others EXCEPT !["1"] = AddMessages(@, r.patched, 0)]
          /\ thread_id' = thread_id
          /\ script' = IF script = "first" THEN "second" ELSE kind
    /\ UNCHANGED <<kb_file, turns, requested>>
    /\ UNCHANGED turn_vars

\* A model call of the Agent node raises.
AgentFails ==
    /\ pc = "agent" /\ steps < MaxSteps
    /\ script = "second"
    /\ LET r == AgentNode(State, "text", TRUE, next_id)
       IN  /\ Commit([State EXCEPT !.messages = r.thread])
           /\ Ran("agent", r.sent)
    /\ Raise
    /\ UNCHANGED <<kb_file, turns, next_id, script, requested>>
    /\ UNCHANGED turn_vars
    /\ UNCHANGED store_vars

Tools ==
    /\ pc = "tools" /\ steps < MaxSteps
    /\ \E r \in {ExecuteToolsNode(State)} :
       \E new \in {Merge(State, r.update, next_id)} :
           /\ ~r.raised
           /\ Commit(new)
           /\ next_id' = next_id + NewIds(r.update.messages)
           /\ Goto(RouteAfterTools(new))
           /\ requested' = requested \o OpenedPaths(Last(messages).tool_calls)
    /\ Ran("tools", <<>>)
    /\ UNCHANGED <<kb_file, turns, script>>
    /\ UNCHANGED turn_vars
    /\ UNCHANGED store_vars

\* The dispatch of a call raises: the node returns nothing and astream raises.
ToolsFails ==
    /\ pc = "tools" /\ steps < MaxSteps
    /\ ExecuteToolsNode(State).raised
    /\ Raise
    /\ Ran("tools", <<>>)
    /\ UNCHANGED state_vars
    /\ UNCHANGED <<kb_file, turns, next_id, script, requested>>
    /\ UNCHANGED turn_vars
    /\ UNCHANGED store_vars

\* The model answers the synthesis call; the file is writable or not.
GenerateKb ==
    /\ pc = "generate_kb" /\ steps < MaxSteps
    /\ \E kind \in SynthesisKinds, writable \in BOOLEAN :
          \E r \in {GenerateKnowledgeBaseNode(State, kind, FALSE, writable, kb_file,
                                              KbText(turns), next_id + 1)} :
          \E new \in {Merge(State, r.update, next_id)} :
              /\ Commit(new)
              /\ next_id' = next_id + NewIds(r.update.messages)
              /\ kb_file' = r.file
              /\ last_write' = r.written
              /\ Ran("generate_kb", r.sent)
    /\ Goto("END")
    /\ kb_runs' = kb_runs + 1
    /\ UNCHANGED <<turns, script, requested, input, first_id, kb_at_start>>
    /\ UNCHANGED store_vars

GenerateKbFails ==
    /\ pc = "generate_kb" /\ steps < MaxSteps
    /\ LET r == GenerateKnowledgeBaseNode(State, "text", TRUE, TRUE, kb_file,
                                          KbText(turns), next_id + 1)
       IN  /\ kb_file' = r.file
           /\ last_write' = r.written
           /\ Ran("generate_kb", r.sent)
    /\ Raise
    /\ kb_runs' = kb_runs + 1
    /\ UNCHANGED state_vars
    /\ UNCHANGED <<turns, next_id, script, requested, input, first_id, kb_at_start>>
    /\ UNCHANGED store_vars

Summarizer ==
    /\ pc = "summarizer" /\ steps < MaxSteps
    /\ \E r \in {SummarizeConversation(State, FALSE, SummaryText(turns))} :
       \E new \in {Merge(State, r.update, next_id)} :
           /\ Commit(new)
           /\ Ran("summarizer", r.sent)
    /\ Goto("END")
    /\ UNCHANGED <<kb_file, turns, next_id, script, requested>>
    /\ UNCHANGED turn_vars
    /\ UNCHANGED store_vars

SummarizerFails ==
    /\ pc = "summarizer" /\ steps < MaxSteps
    /\ \E r \in {SummarizeConversation(State, TRUE, SummaryText(turns))} :
           /\ r.raised
           /\ Ran("summarizer", r.sent)
    /\ Raise
    /\ UNCHANGED state_vars
    /\ UNCHANGED <<kb_file, turns, next_id, script, requested>>
    /\ UNCHANGED turn_vars
    /\ UNCHANGED store_vars

\* The turn is cut off after MaxSteps node executions.
StepLimit ==
    /\ pc # "idle" /\ steps = MaxSteps
    /\ pc' = "idle" /\ outcome' = "limit"
    /\ UNCHANGED state_vars
    /\ UNCHANGED <<kb_file, last_stage, turns, steps, next_id, script, model_calls,
                   model_seen, requested>>
    /\ UNCHANGED turn_vars
    /\ UNCHANGED store_vars

Next ==
    \/ StartTurn
    \/ Preprocessor
    \/ StartKbExploration
    \/ Agent
    \/ AgentFails
    \/ Tools
    \/ GenerateKb
    \/ GenerateKbFails
    \/ Summarizer
    \/ SummarizerFails
    \/ StepLimit

Spec == Init /\ [][Next]_vars


\* ------------------------------------------- a session on another thread id
\* The graph driven with a config that names a thread id other than "1", in
\* a checkpoint store that holds thread "1" as well.
ThreadInit ==
    /\ Fresh
    /\ thread_id \in ThreadIds \ {"1"}
    /\ others \in [ThreadIds \ {thread_id} -> {<<>>, OtherHistory}]

ThreadSpec == ThreadInit /\ [][Next]_vars

\* ------------------------------------------------ input during a running turn
\* app.py: chat_input stays enabled while stream_response runs, and nothing
\* in the handler queues or rejects an input. A submission during a turn
\* makes Streamlit stop the running script at its next st call (the
\* placeholder updates of stream_response) and run the script again with the
\* new input: the turn is abandoned with the state of its last completed
\* step, and the handler starts astream on the same thread.
Rerun ==
    /\ pc # "idle"
    /\ turns < MaxTurns
    /\ \E text \in UserInputs :
          LET input_state == InputState(messages, text) IN
          /\ messages' = AddMessages(messages, input_state, next_id)
          /\ next_id' = next_id + NewIds(input_state)
          /\ input' = text
    /\ pc' = "preprocessor" /\ outcome' = "running" /\ last_stage' = "none"
    /\ turns' = turns + 1 /\ steps' = 0 /\ script' = "first"
    /\ model_calls' = 0 /\ model_seen' = NoInput
    /\ first_id' = next_id /\ kb_at_start' = generating_kb /\ kb_runs' = 0
    /\ last_write' = "none"
    /\ UNCHANGED <<all_files_opened, kb_exploration_rounds, generating_kb,
                   knowledge_base, command, summary, kb_file, requested>>
    /\ UNCHANGED store_vars

SessionNext ==
    \/ Next
    \/ Rerun

SessionSpec == Init /\ [][SessionNext]_vars

\* ---------------------------------------------------- the tools node alone
\* The file_paths arguments a model call may carry.
FilePathArgs ==
    { ListArg(<<S("a.py")>>),
      ListArg(<<S("b.py"), S("a.py")>>),
      ListArg(<<S("a.py"), S("foo/bar.py"), S("a.py")>>),
      ListArg(<<S("foo/bar.py")>>),
      ListArg(<<S("v2.py")>>),
      ListArg(<<S(".env.py")>>),
      ListArg(<<S(" '1. a.py' ")>>),
      ListArg(<<S("edge.py")>>),
      ListArg(<<S("big.py")>>),
      ListArg(<<S("bin.py"), S("pkg")>>),
      ListArg(<<S("a.py"), NotStr("1")>>),
      StrArg("b.py"),
      StrArg("['a.py', 'b.py']"),
      StrArg("[a.py]"),
      StrArg("[1, 2]"),
      MissingArg,
      NullArg }

\* The tool calls a model answer may carry, before they are given ids.
CallTemplates ==
    { [name |-> "open_files", file_paths |-> a] : a \in FilePathArgs }
    \cup { [name |-> "get_file_structure", file_paths |-> MissingArg],
           [name |-> "search_code", file_paths |-> MissingArg] }

Batches == UNION { [1..n -> CallTemplates] : n \in 1..MaxBatch }

PendingCalls(batch, n) ==
    [i \in 1..Len(batch) |-> ToolCall(batch[i].name, 10 * n + i, batch[i].file_paths)]

\* The history when the first answer of the first turn carries `batch`:
\* after app.py's input, preprocessor, start_kb_exploration on a command
\* input, and agent.
HistoryBeforeTools(text, batch) ==
    LET m0 == AddMessages(<<>>, InputState(<<>>, text), 1)
        cmd == PhrasesIn(Normalize(text)) # {}
        m1 == IF cmd THEN AddMessages(m0, <<HumanMessage(KbInstruction)>>, 3) ELSE m0
        n == Len(m1) + 1
        response == AIMessage(Chunks(<< [type |-> "text", text |-> "answer"],
                                        [type |-> "tool_use", text |-> ""] >>),
                              PendingCalls(batch, n))
    IN  AddMessages(m1, <<response>>, n)

\* The first turn of a thread at the point where the tools node is about to
\* dispatch the batch of the model's first answer.
ToolInit ==
    /\ \E text \in UserInputs, batch \in Batches :
          /\ input = text
          /\ messages = HistoryBeforeTools(text, batch)
    /\ generating_kb = (PhrasesIn(Normalize(input)) # {})
    /\ next_id = Len(messages) + 1
    /\ steps = Len(messages) - 1
    /\ all_files_opened = <<>>
    /\ kb_exploration_rounds = 0
    /\ kb_file = "" /\ knowledge_base = ""
    /\ command = "none"
    /\ summary = ""
    /\ pc = "tools" /\ outcome = "running" /\ last_stage = "agent"
    /\ turns = 1
    /\ script = "second"
    /\ model_calls = 1
    /\ model_seen = Seen(<<SubSeq(messages, 1, Len(messages) - 1)>>)
    /\ first_id = 1 /\ kb_at_start = FALSE /\ kb_runs = 0
    /\ last_write = "none"
    /\ requested = <<>>
    /\ thread_id = "1"
    /\ others = [t \in ThreadIds \ {"1"} |-> <<>>]

ToolNext ==
    \/ Tools
    \/ ToolsFails

ToolSpec == ToolInit /\ [][ToolNext]_vars

\* ------------------------------------------------------------ a long thread
\* The state of a thread whose turn has grown the history beyond the
\* threshold, built by the nodes themselves: the input, preprocessor, rounds
\* of agent (answering with open_files calls) and tools, and the agent's
\* plain answer.
NextIdOf(msgs) ==
    IF msgs = <<>> THEN 1
    ELSE 1 + (CHOOSE n \in {msgs[i].id : i \in 1..Len(msgs)} :
                 \A i \in 1..Len(msgs) : msgs[i].id <= n)

AfterInput(st, text) ==
    [st EXCEPT !.messages =
        AddMessages(st.messages, InputState(st.messages, text), NextIdOf(st.messages))]

AfterPreprocessor(st) == Merge(st, PreprocessorNode(st), NextIdOf(st.messages))

AfterAgent(st, kind) ==
    LET r == AgentNode(st, kind, FALSE, NextIdOf(st.messages))
    IN  Merge([st EXCEPT !.messages = r.thread], r.update, NextIdOf(st.messages))

AfterTools(st) == Merge(st, ExecuteToolsNode(st).update, NextIdOf(st.messages))

\* Rounds of agent and tools until the next answer makes the history longer
\* than the threshold.
RECURSIVE UntilLong(_)
UntilLong(st) ==
    IF Len(st.messages) + 1 > SummaryThreshold THEN st
    ELSE UntilLong(AfterTools(AfterAgent(st, "open")))

\* The turn up to the agent's last call, and after its plain answer.
BeforeAnswer(st, text) == UntilLong(AfterPreprocessor(AfterInput(st, text)))
LongTurn(st, text) == AfterAgent(BeforeAnswer(st, text), "text")

Summarized(st, text) ==
    Merge(st, SummarizeConversation(st, FALSE, text).update, NextIdOf(st.messages))

NewThread(kb) ==
    [messages |-> <<>>, all_files_opened |-> <<>>, kb_exploration_rounds |-> 0,
     generating_kb |-> FALSE, knowledge_base |-> kb, command |-> "none",
     summary |-> ""]

\* The threads at the start of their turn t, with an existing knowledge base
\* kb or none: a new thread (t = 1), and a thread whose first turn was long
\* and was summarized (t = 2).
ThreadAtTurn(t, kb) ==
    IF t = 1 THEN NewThread(kb)
    ELSE Summarized(LongTurn(NewThread(kb), "What does module X do?"), SummaryText(1))

\* The paths the open_files calls of a history asked for.
RECURSIVE RequestedIn(_)
RequestedIn(msgs) ==
    IF msgs = <<>> THEN <<>>
    ELSE OpenedPaths(Head(msgs).tool_calls) \o RequestedIn(Tail(msgs))

\* A thread in its first or second turn at the point where the agent has
\* answered plainly and the summarizer is about to run.
SummaryInit ==
    /\ \E t \in 1..2, kb \in {"", "kb0"} :
       \E before \in {BeforeAnswer(ThreadAtTurn(t, kb), "What does module X do?")} :
       \E st \in {AfterAgent(before, "text")} :
          /\ turns = t
          /\ kb_file = kb
          /\ messages = st.messages
          /\ all_files_opened = st.all_files_opened
          /\ kb_exploration_rounds = st.kb_exploration_rounds
          /\ generating_kb = st.generating_kb
          /\ knowledge_base = st.knowledge_base
          /\ command = st.command
          /\ summary = st.summary
          /\ model_seen = Seen(Inputs(before.messages, TRUE))
          /\ first_id = NextIdOf(ThreadAtTurn(t, kb).messages)
          /\ requested =
                (IF t = 1 THEN <<>>
                 ELSE RequestedIn(LongTurn(NewThread(kb), "What does module X do?").messages))
                \o RequestedIn(st.messages)
    /\ input = "What does module X do?"
    /\ next_id = NextIdOf(messages)
    /\ steps = 2 * Cardinality({i \in 1..Len(messages) :
                                   messages[i].type = "ai" /\ messages[i].id >= first_id})
    /\ pc = "summarizer" /\ outcome = "running" /\ last_stage = "agent"
    /\ script = "text"
    /\ model_calls = 2
    /\ kb_at_start = FALSE /\ kb_runs = 0
    /\ last_write = "none"
    /\ thread_id = "1"
    /\ others = [t \in ThreadIds \ {"1"} |-> <<>>]

SummarySpec == SummaryInit /\ [][Next]_vars

\* ===================================================================
\* Properties
\* ===================================================================

\* A node of the graph ran in this step.
NodeRan == steps' = steps + 1

\* The running (or last) turn was started by a command input.
CommandInput == PhrasesIn(Normalize(input)) # {}

AnswersTo(msgs, id) ==
    {k \in 1..Len(msgs) : msgs[k].type = "tool" /\ msgs[k].tool_call_id = id}

EveryCallAnswered(msgs) ==
    \A i \in 1..Len(msgs) : \A j \in 1..Len(msgs[i].tool_calls) :
        Cardinality(AnswersTo(msgs, msgs[i].tool_calls[j].id)) = 1

\* C1: whenever the Agent stage is about to call the model, every ToolCall of
\* every Assistant message of the history it passes is answered in that
\* history by exactly one Tool message with the call's id.
C1_CallsAnsweredAtAgent == pc = "agent" => EveryCallAnswered(messages)

EntersSynthesis == pc # "generate_kb" /\ pc' = "generate_kb"

ModeStaysUntilSynthesis ==
    (generating_kb /\ ~generating_kb') => (pc = "generate_kb" /\ NodeRan)

\* C2 as claimed: generate_kb is entered only directly after a tools step that
\* raised kb_exploration_rounds from 8 to 9, and generating_kb goes from true
\* to false only when generate_kb runs.
C2_SynthesisOnBudgetCrossing ==
    [][ /\ EntersSynthesis =>
              /\ pc = "tools"
              /\ kb_exploration_rounds = RoundBudget
              /\ kb_exploration_rounds' = RoundBudget + 1
        /\ ModeStaysUntilSynthesis ]_vars

\* C2 amended: generate_kb is entered only directly after a tools step that
\* leaves kb_exploration_rounds above 8 with generating_kb true, never at 8 or
\* below; that step raised the counter from 8 to 9 unless the turn found
\* generating_kb already true (an earlier exploration turn did not complete);
\* generating_kb goes from true to false only when generate_kb runs.
C2_SynthesisAboveBudget ==
    [][ /\ EntersSynthesis =>
              /\ pc = "tools"
              /\ generating_kb'
              /\ kb_exploration_rounds' > RoundBudget
              /\ \/ /\ kb_exploration_rounds = RoundBudget
                    /\ kb_exploration_rounds' = RoundBudget + 1
                 \/ kb_at_start
        /\ ModeStaysUntilSynthesis ]_vars

C2_Witness ==
    /\ pc = "generate_kb" /\ last_stage = "tools"
    /\ generating_kb /\ kb_exploration_rounds = RoundBudget + 1

ToolsRan == pc = "tools" /\ NodeRan

\* C3 as claimed: while generating_kb is true every tools step adds exactly 1
\* to kb_exploration_rounds whatever the batch holds; while it is false the
\* counter is unchanged.
C3_EveryBatchCounts ==
    [][ ToolsRan =>
          kb_exploration_rounds' =
              kb_exploration_rounds + (IF generating_kb THEN 1 ELSE 0) ]_vars

\* C3 amended: while generating_kb is true a tools step adds exactly 1 to
\* kb_exploration_rounds when its batch holds at least one open_files call
\* (however many calls and paths) and leaves it unchanged otherwise; while
\* generating_kb is false the counter is unchanged.
C3_OpenFilesBatchCounts ==
    [][ ToolsRan =>
          kb_exploration_rounds' =
              kb_exploration_rounds
              + (IF generating_kb /\ \E i \in 1..Len(Last(messages).tool_calls) :
                                        Last(messages).tool_calls[i].name = "open_files"
                 THEN 1 ELSE 0) ]_vars

C3_Witness ==
    /\ last_stage = "tools" /\ generating_kb /\ kb_exploration_rounds = 1
    /\ Len(requested) = 3
    /\ IsOpenFilesResult(Last(messages))
    /\ IsOpenFilesResult(messages[Len(messages) - 1])

\* C4: all_files_opened is the concatenation, in request order, of the
\* file_paths lists of all open_files calls dispatched so far.
C4_AllFilesOpenedIsRequestLog == all_files_opened = requested

\* C5: every turn reaches Terminal after finitely many node executions; here:
\* no turn is still short of END after MaxSteps of them.
C5_TurnReachesTerminal == ~(pc # "idle" /\ steps = MaxSteps)

SummarizerDone == last_stage = "summarizer" /\ outcome = "end"

\* C6 as claimed: after Summarizer ran the history holds exactly KeepMessages
\* messages.
C6_HistoryIsKeepCount == SummarizerDone => Len(messages) = KeepMessages

\* C6 amended: after Summarizer ran the history is the leading System message
\* followed by the most recent KeepMessages messages, KeepMessages + 1 in all.
C6_HistoryIsSystemPlusKeepCount ==
    SummarizerDone =>
        /\ Len(messages) = KeepMessages + 1
        /\ messages[1].type = "system"
        /\ \A i \in 2..Len(messages) : messages[i].type # "system"

C6_Witness == SummarizerDone /\ pc = "idle" /\ summary # ""

\* The running turn is the first of the thread and was started by a command.
FirstKbTurn == turns = 1 /\ CommandInput

\* Terminal: the graph reached END.
AtTerminal == pc = "idle" /\ outcome = "end"

StrictOrder ==
    { <<"preprocessor", "start_kb_exploration">>, <<"start_kb_exploration", "agent">>,
      <<"agent", "tools">>, <<"tools", "agent">>, <<"tools", "generate_kb">>,
      <<"generate_kb", "idle">> }

ExplorationStarted ==
    (FirstKbTurn /\ last_stage = "start_kb_exploration") =>
        (generating_kb /\ kb_exploration_rounds = 0 /\ pc = "agent")

\* C7 as claimed: in a turn started on an empty thread by a command input the
\* nodes run in the order preprocessor, start_kb_exploration, agent, then
\* tools and agent alternating, then generate_kb once, then END; at END
\* generating_kb is false and knowledge_base is the synthesized text, which is
\* the content of the knowledge-base file.
C7_ExplorationTurnStrict ==
    /\ [][ (FirstKbTurn /\ NodeRan /\ outcome' # "error")
              => <<pc, pc'>> \in StrictOrder ]_vars
    /\ [] ExplorationStarted
    /\ [] (FirstKbTurn /\ AtTerminal =>
              /\ kb_runs = 1 /\ last_stage = "generate_kb"
              /\ ~generating_kb
              /\ knowledge_base = KbText(1)
              /\ kb_file = knowledge_base)

\* C7 amended: the nodes run in the order preprocessor, start_kb_exploration,
\* agent, then any sequence of tools followed by agent and of agent followed
\* directly by agent (the forced continuation after an answer without tool
\* calls), then generate_kb once, directly after a tools step, then END; at
\* END generating_kb is false and knowledge_base is the synthesized text,
\* which is the content of the knowledge-base file when the write succeeded.
C7_ExplorationTurn ==
    /\ [][ (FirstKbTurn /\ NodeRan /\ outcome' # "error")
              => <<pc, pc'>> \in StrictOrder \cup { <<"agent", "agent">> } ]_vars
    /\ [] ExplorationStarted
    /\ [] (FirstKbTurn /\ AtTerminal =>
              /\ kb_runs = 1 /\ last_stage = "generate_kb"
              /\ ~generating_kb
              /\ knowledge_base = KbText(1)
              /\ last_write \in {"ok", "failed"}
              /\ (last_write = "ok" => kb_file = knowledge_base))

IsContinue(m) == m.type = "human" /\ m.content.text = ContinueText

C7_Witness ==
    /\ FirstKbTurn /\ AtTerminal /\ last_write = "ok"
    /\ kb_file = KbText(1)
    /\ \E i \in 1..Len(messages) : IsContinue(messages[i])

\* A "Continue" message was injected in the running turn.
ContinueInjected ==
    \E i \in 1..Len(messages) : IsContinue(messages[i]) /\ messages[i].id >= first_id

NormalTurn == turns > 0 /\ ~CommandInput

NeverStartsExploration ==
    pc # "start_kb_exploration" /\ last_stage # "start_kb_exploration"

NeverSynthesizes == pc # "generate_kb" /\ last_stage # "generate_kb"

\* C8 as claimed: a turn whose input holds neither command phrase never runs
\* start_kb_exploration, never has "Continue" injected and never reaches
\* generate_kb, whatever the earlier turns did.
C8_NormalTurnNeverExplores ==
    NormalTurn => NeverStartsExploration /\ ~ContinueInjected /\ NeverSynthesizes

\* C8 amended: a turn whose input holds neither command phrase never runs
\* start_kb_exploration; it has "Continue" injected or reaches generate_kb
\* only when generating_kb was already true as the turn began (left so by an
\* earlier exploration turn that did not complete).
C8_NormalTurnKeepsMode ==
    NormalTurn =>
        /\ NeverStartsExploration
        /\ ~kb_at_start => (~ContinueInjected /\ NeverSynthesizes /\ ~generating_kb)

C8_Witness ==
    /\ NormalTurn /\ turns = 2 /\ ~kb_at_start /\ AtTerminal
    /\ knowledge_base = KbText(1)

AgentAnsweredPlainly ==
    /\ pc = "agent" /\ NodeRan /\ outcome' # "error"
    /\ ~generating_kb
    /\ Last(messages').tool_calls = NoCalls

SummarizerRan == pc = "summarizer" /\ NodeRan /\ outcome' # "error"

\* C9: with generating_kb false, when Agent returns an answer without tool
\* calls the turn goes to Summarizer if the history holds more than 15
\* messages and to Terminal without Summarizer otherwise; Summarizer leaves a
\* strictly shorter history and is followed by Terminal.
C9_SummarizerWhenLong ==
    [][ /\ AgentAnsweredPlainly =>
              IF Len(messages') > SummaryThreshold
              THEN pc' = "summarizer"
              ELSE pc' = "idle" /\ outcome' = "end"
        /\ SummarizerRan =>
              /\ Len(messages) > SummaryThreshold
              /\ Len(messages') < Len(messages)
              /\ pc' = "idle" /\ outcome' = "end" ]_vars

C9_Witness ==
    /\ SummarizerDone /\ ~generating_kb
    /\ Len(messages) < SummaryThreshold

\* C10: a step in which a model call fails ends the turn with an error and
\* changes no field of the checkpointed state and not the knowledge-base
\* file, so everything merged earlier in the turn stays as it was.
C10_FailedCallChangesNothing ==
    [][ outcome' = "error" =>
          /\ pc \in {"agent", "generate_kb", "summarizer"}
          /\ pc' = "idle"
          /\ UNCHANGED state_vars
          /\ UNCHANGED kb_file ]_vars

C10_Witness ==
    /\ outcome = "error" /\ last_stage = "agent" /\ pc = "idle"
    /\ IsOpenFilesResult(Last(messages))
    /\ Last(messages).content.text # Placeholder


\* ------------------------------------------------------------ tool dispatch
\* The last Assistant message of the history, its batch, and the message i
\* places after it.
LastAi ==
    CHOOSE k \in 1..Len(messages) :
        /\ messages[k].type = "ai"
        /\ \A j \in (k + 1)..Len(messages) : messages[j].type # "ai"

PendingBatch == messages[LastAi].tool_calls

Answer(i) == messages[LastAi + i]

\* The tools node was the last node to run.
Dispatched == last_stage = "tools"

KnownTools == {"get_file_structure", "open_files"}

\* C11: for every batch of pending tool calls the tools node emits exactly
\* one Tool message per call, with the call's id, in call order; a call to an
\* unknown tool is answered with "Unknown tool: <name>" and the step does not
\* abort.
C11_OneAnswerPerCall ==
    Dispatched =>
        /\ outcome # "error"
        /\ Len(messages) = LastAi + Len(PendingBatch)
        /\ \A i \in 1..Len(PendingBatch) :
              /\ Answer(i).type = "tool"
              /\ Answer(i).tool_call_id = PendingBatch[i].id
              /\ PendingBatch[i].name \notin KnownTools =>
                     Answer(i).content.text = "Unknown tool: " \o PendingBatch[i].name

\* A file_paths argument that is not a list of strings.
Malformed(arg) ==
    \/ arg.shape # "list"
    \/ \E j \in 1..Len(arg.items) : ~arg.items[j].isstr

StartsWithBlock(text) ==
    \E p \in ExistingFiles :
        /\ Len(text) >= Len(p) + 2
        /\ SubSeq(text, 1, Len(p) + 2) = p \o ":\n"

\* C12: an open_files call with a malformed file_paths argument never raises
\* out of the tools node: the call is answered by a Tool message holding file
\* blocks or the sentinel.
C12_MalformedNeverRaises ==
    Dispatched =>
        \A i \in 1..Len(PendingBatch) :
            (PendingBatch[i].name = "open_files" /\ Malformed(PendingBatch[i].file_paths))
            => /\ outcome # "error"
               /\ Answer(i).type = "tool"
               /\ Answer(i).tool_call_id = PendingBatch[i].id
               /\ \/ Answer(i).content.text = NoValidContents
                  \/ StartsWithBlock(Answer(i).content.text)

\* The batch was dispatched and answered.
Answered == Dispatched /\ outcome # "error"

\* A path without surrounding whitespace, quotes or brackets and without a
\* leading digit.
ArtifactFree(path) ==
    /\ Len(path) > 0
    /\ Strip(path, Whitespace \cup {"'", "\"", "[", "]"}) = path
    /\ CharAt(path, 1) \notin Digits

\* blk is one of the blocks of text: it starts the text or follows the
\* separator, and it ends the text or is followed by the separator.
HasBlock(text, blk) ==
    \E k \in 1..(Len(text) - Len(blk) + 1) :
        /\ k = 1 \/ (k > 2 /\ SubSeq(text, k - 2, k - 1) = "\n\n")
        /\ \/ k + Len(blk) - 1 = Len(text)
           \/ /\ k + Len(blk) + 1 <= Len(text)
              /\ SubSeq(text, k + Len(blk), k + Len(blk) + 1) = "\n\n"
        /\ SubSeq(text, k, k + Len(blk) - 1) = blk

\* The list-of-strings open_files calls of the batch.
ListCalls ==
    { i \in 1..Len(PendingBatch) :
        /\ PendingBatch[i].name = "open_files"
        /\ ~Malformed(PendingBatch[i].file_paths) }

Requested(i) ==
    [j \in 1..Len(PendingBatch[i].file_paths.items) |->
        PendingBatch[i].file_paths.items[j].val]

\* C16: sanitization leaves a path that is free of artifacts as it is: when
\* such a path names an existing (readable) file, whatever characters it
\* holds, the lookup uses exactly that path and the result holds the file's
\* block.
C16_CleanPathLookedUpAsIs ==
    Answered =>
        \A i \in ListCalls : \A j \in 1..Len(Requested(i)) :
            LET path == Requested(i)[j] IN
            (ArtifactFree(path) /\ path \in ExistingFiles \ Undecodable)
            => /\ CleanPath(path) = path
               /\ HasBlock(Answer(i).content.text,
                           path \o ":\n" \o Truncated(FileContent(path), MaxChars))

\* C17: open_files returns one block for each requested path that names an
\* existing file, in request order, with the other paths omitted, and the
\* sentinel when no requested path does.
C17_OneBlockPerExistingPath ==
    Answered =>
        \A i \in ListCalls :
            (\A j \in 1..Len(Requested(i)) : ArtifactFree(Requested(i)[j]))
            => LET existing == SelectSeq(Requested(i), LAMBDA q : q \in ExistingFiles)
               IN  Answer(i).content.text =
                       IF existing = <<>> THEN NoValidContents
                       ELSE JoinBlocks(existing, MaxChars)

\* The files a call reads: the looked-up paths that are files and decode.
FilesRead(i) ==
    { q \in ExistingFiles \ Undecodable :
        \E j \in 1..Len(Requested(i)) : CleanPath(Requested(i)[j]) = q }

\* C18: with limit L = 30000, the block of a file of at most L characters
\* holds the file's content exactly, without marker (also at exactly L); the
\* block of a longer file holds its first L characters followed by "...".
C18_ExactUpToLimit ==
    Answered =>
        \A i \in ListCalls : \A q \in FilesRead(i) :
            LET content == FileContent(q)
                shown == IF Len(content) <= MaxChars THEN content
                         ELSE SubSeq(content, 1, MaxChars) \o "..."
            IN  HasBlock(Answer(i).content.text, q \o ":\n" \o shown)

C18_Witness ==
    /\ Answered
    /\ \E i, j \in 1..Len(PendingBatch) :
          /\ Answer(i).content.text = "edge.py:\n" \o Rep("e", MaxChars)
          /\ Answer(j).content.text = "big.py:\n" \o Rep("g", MaxChars) \o "..."

\* -------------------------------------------------- synthesis and routing
\* The generate_kb node ran and its write of the knowledge-base file failed.
WriteFailed == pc = "generate_kb" /\ NodeRan /\ last_write' = "failed"

\* C13: when the write of the knowledge-base file fails in generate_kb the
\* failure is not raised: the node completes, the turn reaches END with
\* knowledge_base the newly synthesized text and generating_kb false, and the
\* write is not retried (generate_kb ran once, and nothing but a run of
\* generate_kb writes the file).
C13_WriteFailureIsSwallowed ==
    [][ /\ WriteFailed =>
              /\ pc' = "idle" /\ outcome' = "end"
              /\ knowledge_base' = KbText(turns)
              /\ ~generating_kb'
              /\ kb_runs' = kb_runs + 1
        /\ pc # "generate_kb" => kb_file' = kb_file ]_vars

C13_Witness ==
    /\ AtTerminal /\ last_stage = "generate_kb" /\ last_write = "failed"
    /\ knowledge_base = KbText(turns) /\ kb_file # knowledge_base
    /\ ~generating_kb

\* The agent node ran and returned.
AgentReturned == pc = "agent" /\ NodeRan /\ outcome' # "error"

\* C19: the route after Agent is decided in strict priority: pending tool
\* calls in the latest message lead to tools, whatever generating_kb and the
\* history length are; otherwise generating_kb leads back to agent; otherwise
\* a history longer than 15 leads to summarizer; otherwise the turn ends.
C19_RoutePriority ==
    [][ AgentReturned =>
          IF Last(messages').tool_calls # NoCalls THEN pc' = "tools"
          ELSE IF generating_kb' THEN pc' = "agent"
          ELSE IF Len(messages') > SummaryThreshold THEN pc' = "summarizer"
          ELSE pc' = "idle" /\ outcome' = "end" ]_vars

C19_Witness ==
    /\ last_stage = "agent" /\ pc = "tools"
    /\ generating_kb /\ Len(messages) > SummaryThreshold
    /\ Last(messages).tool_calls # NoCalls

\* The model response the agent node appended in this step, and whether the
\* step appended the "Continue" message after it.
ResponseAdded ==
    messages'[CHOOSE k \in 1..Len(messages') : messages'[k].id = next_id]

ContinueAdded == IsContinue(Last(messages')) /\ Last(messages').id >= next_id

\* C20: Agent appends the "Continue" Human message after the model response
\* if and only if generating_kb is true and the response carries no tool
\* calls; the route then leads back to agent, never to END or summarizer.
C20_ContinueOnlyWhenExploring ==
    [][ AgentReturned =>
          /\ ResponseAdded.type = "ai"
          /\ ContinueAdded <=> (generating_kb /\ ResponseAdded.tool_calls = NoCalls)
          /\ ContinueAdded =>
                 /\ Last(messages').id = ResponseAdded.id + 1
                 /\ pc' = "agent" ]_vars

C20_Witness ==
    /\ last_stage = "agent" /\ pc = "agent" /\ generating_kb
    /\ IsContinue(Last(messages))
    /\ messages[Len(messages) - 1].type = "ai"
    /\ messages[Len(messages) - 1].tool_calls = NoCalls

\* ------------------------------------------------------- threads and inputs
\* A turn starts in this step.
TurnStarts == turns' = turns + 1

\* C14: no two steps run against the same thread id at once: an input that
\* arrives while a turn is between Preprocess and Terminal is queued or
\* rejected, so a turn starts only when the turn before it has reached its
\* end.
C14_TurnStartsOnlyWhenIdle == [][ TurnStarts => pc = "idle" ]_vars

\* C15: a step running for thread id T reads and writes the checkpointed
\* state of T only: the state of every other thread id of the store is left
\* unchanged by every stage, the placeholder replacement of Agent included.
C15_OtherThreadsUntouched == [][ others' = others ]_vars

\* ------------------------------------------------- placeholder and model calls
\* The message with this id has the placeholder as content after the step.
CollapsedAfter(id) ==
    /\ \E j \in 1..Len(messages') : messages'[j].id = id
    /\ \A j \in 1..Len(messages') :
          messages'[j].id = id => messages'[j].content = Str(Placeholder)

\* C21: whenever Agent is entered with an open_files Tool message last, that
\* message's content in the persisted state is "..." after the stage
\* completes, whether or not the response carries tool calls and whether or
\* not generating_kb is true.
C21_LastResultCollapsed ==
    [][ (AgentReturned /\ IsOpenFilesResult(Last(messages)))
          => CollapsedAfter(Last(messages).id) ]_vars

\* The open_files results a history holds with the placeholder as content.
CollapsedIds(history) ==
    {history[i].id : i \in {j \in 1..Len(history) :
                               /\ IsOpenFilesResult(history[j])
                               /\ history[j].content = Str(Placeholder)}}

\* The step leaves every message of the history as it is and in its place:
\* it replaces no content.
KeptAsIs ==
    /\ Len(messages') >= Len(messages)
    /\ SubSeq(messages', 1, Len(messages)) = messages

\* C22: for every open_files Tool message, the replacement by the
\* placeholder never happens before a model call has received the history
\* with the message's full content, and no model call made after the
\* replacement receives the full content again: the results a step replaces
\* were given in full to a model call of the step, and what the calls of a
\* step are given in full the state held in full before the step.
C22_ReplacedAfterSeen ==
    [][ /\ \/ KeptAsIs
           \/ (FullIds(messages) \cap CollapsedIds(messages')) \subseteq model_seen'.full
        /\ NodeRan =>
              \/ model_seen'.full = {}
              \/ model_seen'.full \subseteq FullIds(messages) ]_vars

C22_Witness ==
    /\ last_stage = "agent" /\ outcome # "error"
    /\ \E k \in 1..Len(messages) :
          /\ IsOpenFilesResult(messages[k])
          /\ messages[k].content = Str(Placeholder)
          /\ messages[k].id \in model_seen.full

\* C23: Preprocess changes no state field other than command: messages,
\* all_files_opened, kb_exploration_rounds, generating_kb, knowledge_base and
\* summary are after the step what they were before it, in every turn.
C23_PreprocessChangesCommandOnly ==
    [][ (pc = "preprocessor" /\ NodeRan)
          => UNCHANGED <<messages, all_files_opened, kb_exploration_rounds,
                         generating_kb, knowledge_base, summary>> ]_vars

\* C25: command is one-shot: it is cleared in every state where a turn has
\* reached END; a command set by Preprocess is consumed by the routing of the
\* same turn, so that it is set only while start_kb_exploration is about to
\* run, and the routing leads there only on a command input of the turn.
C25_CommandOneShot ==
    /\ [](AtTerminal => command = "none")
    /\ [](command # "none" => (pc = "start_kb_exploration" /\ CommandInput))
    /\ [][ pc' = "start_kb_exploration"
             => (pc = "preprocessor" /\ command' = "generate_kb" /\ CommandInput) ]_vars

C25_Witness ==
    /\ AtTerminal /\ turns = 2 /\ ~CommandInput
    /\ knowledge_base = KbText(1)
    /\ command = "none"

\* C26: each execution of Agent issues exactly one model call, on the message
\* history as the state holds it, whatever message is last.
C26_OneCallPerAgent ==
    [][ (pc = "agent" /\ NodeRan)
          => /\ model_calls' = 1
             /\ model_seen'.prompt = TextOf(Last(messages)) ]_vars

\* C27: in every state where a turn has reached END, every open_files Tool
\* message of the history has "..." as content.
C27_CollapsedAtTerminal ==
    AtTerminal =>
        \A k \in 1..Len(messages) :
            IsOpenFilesResult(messages[k]) => messages[k].content = Str(Placeholder)

\* ------------------------------------------------------------------ summary
\* The positions of the history the summarizer keeps: a leading System
\* message and the most recent KeepMessages messages.
KeptPositions ==
    {i \in 1..Len(messages) :
        \/ i > Len(messages) - KeepMessages
        \/ i = 1 /\ messages[1].type = "system"}

Ids(msgs) == {msgs[i].id : i \in 1..Len(msgs)}

\* C24: Summarizer removes every message of the history except the most
\* recent KeepMessages messages and a leading System message, sets summary to
\* the result of exactly one model call whose input holds the removed
\* messages and the previous summary, and goes to END; no removed id is in
\* the history of that state or of a later one: every message of a later
\* history was there before the step or has an id handed out in it, and ids
\* are handed out in increasing order.
C24_SummarizerFolds ==
    [][ /\ SummarizerRan =>
              /\ messages' = SelectSeq(messages, LAMBDA m :
                                 \E i \in KeptPositions : messages[i].id = m.id)
              /\ Ids(messages) \ Ids(messages') =
                     {messages[i].id : i \in (1..Len(messages)) \ KeptPositions}
              /\ model_calls' = 1
              /\ Contains(model_seen'.prompt, "summary: " \o summary \o " ")
              /\ \A i \in (1..Len(messages)) \ KeptPositions :
                     Contains(model_seen'.prompt, Repr(messages[i]))
              /\ summary' = SummaryText(turns)
              /\ pc' = "idle" /\ outcome' = "end"
        /\ \A j \in 1..Len(messages') :
              \/ messages'[j].id \in Ids(messages)
              \/ messages'[j].id >= next_id
        /\ \A i \in 1..Len(messages) : messages[i].id < next_id
        /\ next_id' >= next_id ]_vars

C24_Witness ==
    /\ SummarizerDone /\ turns = 2
    /\ summary = SummaryText(2)
    /\ Contains(model_seen.prompt, "summary: " \o SummaryText(1) \o " ")
    /\ Len(messages) = KeepMessages + 1

\* C28: after Summarizer has removed messages from a thread, every later
\* model call of Agent on the thread is given the current summary as part of
\* its input.
C28_AgentGivenSummary ==
    [][ (pc = "agent" /\ NodeRan /\ summary # "") => model_seen'.summary ]_vars

====
